---- MODULE Spec2Model ----
(***************************************************************************)
(* Model of uefi-services (src/uefi-services/src/lib.rs): the global       *)
(* system-table singleton, the logger and allocator lifecycle, the         *)
(* exit-boot-services callback and the panic / out-of-memory handlers.     *)
(*                                                                         *)
(* Rust's Option<T> is modelled as a sequence of length at most one:       *)
(* None is << >> and Some(x) is <<x>>.                                     *)
(***************************************************************************)
EXTENDS Naturals, Sequences, FiniteSets

VARIABLES
    SYSTEM_TABLE,   \* static mut SYSTEM_TABLE: Option<SystemTable<Boot>>
    LOGGER,         \* static mut LOGGER: Option<uefi::logger::Logger>
    log_logger,     \* the log crate's global sink: TRUE once set_logger succeeded
    max_level,      \* the log crate's maximum level filter
    alloc,          \* uefi::alloc's boot-services reference
    hook,           \* the firmware's view of the SIGNAL_EXIT_BOOT_SERVICES event
    events,         \* number of events created with create_event
    pc,             \* position of the single flow of control
    op,             \* the entry point most recently entered
    ret,            \* value returned by the most recent entry point, if any
    st,             \* init's argument while init is running
    info,           \* the PanicInfo handed to panic_handler
    trace,          \* calls made so far by the entry point that is running
    logged,         \* records handed to error!() by panic_handler
    i,              \* loop counter of panic_handler's busy loop
    dummy,          \* target of the busy loop's volatile writes
    cfg,            \* build configuration: cargo features and target_arch
    n_store,        \* number of times init stored a table in SYSTEM_TABLE
    n_logger,       \* number of Logger objects constructed
    n_alloc,        \* number of uefi::alloc::init calls
    layout,         \* out_of_memory's argument
    n_fired         \* number of times the callback was entered

vars == <<SYSTEM_TABLE, LOGGER, log_logger, max_level, alloc, hook, events, pc,
          op, ret, st, info, trace, logged, i, dummy, cfg, n_store, n_logger,
          n_alloc, layout, n_fired>>

\* ---------------------------------------------------------------- bounds
MaxTables == 2
BusyLoopIters == 2
MaxFirings == 2

\* ---------------------------------------------------------------- inputs
None == << >>
Some(x) == <<x>>
is_some(o) == o /= None

Statuses == {"SUCCESS", "OUT_OF_RESOURCES", "INVALID_PARAMETER"}

\* A system table handle: its identity and the status its boot services'
\* create_event answers with.
Tables == [id : 1..MaxTables, create_event : Statuses]

Archs == {"x86_64", "aarch64", "other"}
Configs == [qemu : BOOLEAN, arch : Archs]

Message(text, size, align) == [text |-> text, size |-> size, align |-> align]

\* PanicInfo: an optional location and an optional message.
Locations == {None, Some("app.rs:1:1")}
Messages == {None, Some(Message("X", 0, 0))}

\* core::alloc::Layout values handed to the allocation error handler.
Layouts == [size : {32, 4096}, align : {8, 16}]

\* Services that are only available before boot services are exited.
BootPhaseCalls == {"stdout", "Logger::new", "output_string", "alloc::init",
                   "create_event", "stall"}

\* Positions of the flow of control.
PanicPcs == {"ph_location", "ph_message", "ph_delay", "ph_busy", "ph_qemu",
             "ph_reset", "ph_final", "ph_halt", "qemu_exited", "reset_off"}
TerminalPcs == {"ph_halt", "qemu_exited", "reset_off"}

\* ------------------------------------------------------- external crates
\* uefi::logger::Logger::new(output): a logger writing to the given console.
Logger_new(output) == [writer |-> Some(output)]

\* uefi::logger::Logger::disable(): drops the console reference.
Logger_disable(logger) == [logger EXCEPT !.writer = None]

\* The log crate hands a record to the sink iff a sink is set and the level
\* filter lets Error through; uefi's Logger writes it iff it has a writer.
log_reaches_console ==
    /\ log_logger
    /\ max_level = "Info"
    /\ is_some(LOGGER)
    /\ is_some(LOGGER[1].writer)

\* The calls one error!() makes.
error_calls == IF log_reaches_console THEN <<"error!", "output_string">>
               ELSE <<"error!">>

LogRecord(kind, loc, msg) == [kind |-> kind, loc |-> loc, msg |-> msg]

\* ------------------------------------------------------------------ Init
Init ==
    /\ SYSTEM_TABLE = None
    /\ LOGGER = None
    /\ log_logger = FALSE
    /\ max_level = "Off"
    /\ alloc = None
    /\ hook = "Unregistered"
    /\ events = 0
    /\ pc = "run"
    /\ op = "none"
    /\ ret = None
    /\ st = None
    /\ info = [location |-> None, message |-> None]
    /\ trace = << >>
    /\ logged = << >>
    /\ i = 0
    /\ dummy = 0
    /\ cfg \in Configs
    /\ n_store = 0
    /\ n_logger = 0
    /\ n_alloc = 0
    /\ layout = None
    /\ n_fired = 0

\* Control enters panic_handler with the given PanicInfo.
EnterPanic(loc, msg) ==
    /\ pc' = "ph_location"
    /\ info' = [location |-> loc, message |-> msg]
    /\ trace' = << >>
    /\ logged' = << >>
    /\ ret' = None

\* ---------------------------------------------------------- system_table
\* system_table without the expect(): hands out a pointer whatever the
\* static holds.
system_table_unchecked ==
    /\ pc = "run"
    /\ op' = "system_table"
    /\ ret' = Some(IF is_some(SYSTEM_TABLE) THEN SYSTEM_TABLE[1]
                   ELSE [id |-> 1, create_event |-> "SUCCESS"])
    /\ trace' = << >>
    /\ UNCHANGED <<pc, info, logged>>
    /\ UNCHANGED <<n_fired, layout, SYSTEM_TABLE, LOGGER, log_logger, max_level, alloc,
                   hook, events, st, i, dummy, cfg, n_store, n_logger, n_alloc>>

\* system_table moving the table out of the static (take() for as_ref()).
system_table_takes ==
    /\ pc = "run"
    /\ op' = "system_table"
    /\ IF is_some(SYSTEM_TABLE)
       THEN /\ ret' = Some(SYSTEM_TABLE[1])
            /\ trace' = << >>
            /\ UNCHANGED <<pc, info, logged>>
       ELSE EnterPanic(Some("lib.rs:54:14"),
                       Some(Message("The system table handle is not available", 0, 0)))
    /\ SYSTEM_TABLE' = None
    /\ UNCHANGED <<n_fired, layout, LOGGER, log_logger, max_level, alloc, hook,
                   events, st, i, dummy, cfg, n_store, n_logger, n_alloc>>

system_table ==
    /\ pc = "run"
    /\ op' = "system_table"
    /\ IF is_some(SYSTEM_TABLE)
       THEN /\ ret' = Some(SYSTEM_TABLE[1])
            /\ trace' = << >>
            /\ UNCHANGED <<pc, info, logged>>
       ELSE EnterPanic(Some("lib.rs:54:14"),
                       Some(Message("The system table handle is not available", 0, 0)))
    /\ UNCHANGED <<n_fired, layout, SYSTEM_TABLE, LOGGER, log_logger, max_level, alloc, hook,
                   events, st, i, dummy, cfg, n_store, n_logger, n_alloc>>

\* ------------------------------------------------------------------ init
\* init without the double-initialization guard.
init_unguarded(table) ==
    /\ pc = "run"
    /\ op' = "init"
    /\ trace' = << >>
    /\ SYSTEM_TABLE' = Some(table)
    /\ n_store' = n_store + 1
    /\ st' = Some(table)
    /\ ret' = None
    /\ pc' = "init_logger"
    /\ UNCHANGED <<n_fired, layout, LOGGER, log_logger, max_level, alloc, hook, events,
                   info, logged, i, dummy, cfg, n_logger, n_alloc>>

\* init going straight to the allocator, without init_logger.
init_skips_logger(table) ==
    /\ pc = "run"
    /\ op' = "init"
    /\ trace' = << >>
    /\ IF is_some(SYSTEM_TABLE)
       THEN /\ ret' = Some("SUCCESS")
            /\ UNCHANGED <<SYSTEM_TABLE, pc, st, n_store>>
       ELSE /\ SYSTEM_TABLE' = Some(table)
            /\ n_store' = n_store + 1
            /\ st' = Some(table)
            /\ ret' = None
            /\ pc' = "alloc_init"
    /\ UNCHANGED <<n_fired, layout, LOGGER, log_logger, max_level, alloc, hook,
                   events, info, logged, i, dummy, cfg, n_logger, n_alloc>>

\* Entry, the double-initialization guard and the store of the singleton.
init(table) ==
    /\ pc = "run"
    /\ op' = "init"
    /\ trace' = << >>
    /\ IF is_some(SYSTEM_TABLE)
       THEN /\ ret' = Some("SUCCESS")
            /\ UNCHANGED <<SYSTEM_TABLE, pc, st, n_store>>
       ELSE /\ SYSTEM_TABLE' = Some(table)
            /\ n_store' = n_store + 1
            /\ st' = Some(table)
            /\ ret' = None
            /\ pc' = "init_logger"
    /\ UNCHANGED <<n_fired, layout, LOGGER, log_logger, max_level, alloc, hook, events, info,
                   logged, i, dummy, cfg, n_logger, n_alloc>>

\* init_logger: st.stdout() and the construction of the logger.
init_logger_new ==
    /\ pc = "init_logger"
    /\ LOGGER' = Some(Logger_new(st[1].id))
    /\ n_logger' = n_logger + 1
    /\ trace' = trace \o <<"stdout", "Logger::new">>
    /\ pc' = "set_logger"
    /\ UNCHANGED <<n_fired, layout, SYSTEM_TABLE, log_logger, max_level, alloc, hook, events,
                   op, ret, st, info, logged, i, dummy, cfg, n_store, n_alloc>>

\* init_logger dropping set_logger's result instead of unwrapping it.
init_logger_set_ignores_error ==
    /\ pc = "set_logger"
    /\ log_logger' = TRUE
    /\ max_level' = "Info"
    /\ trace' = trace \o <<"set_logger", "set_max_level">>
    /\ pc' = "alloc_init"
    /\ UNCHANGED <<ret, info, logged>>
    /\ UNCHANGED <<n_fired, layout, SYSTEM_TABLE, LOGGER, alloc, hook, events,
                   op, st, i, dummy, cfg, n_store, n_logger, n_alloc>>

\* init_logger: log::set_logger(logger).unwrap() and log::set_max_level.
init_logger_set ==
    /\ pc = "set_logger"
    /\ IF log_logger
       THEN /\ EnterPanic(Some("lib.rs:103:5"),
                          Some(Message("called Result::unwrap() on an Err value", 0, 0)))
            /\ UNCHANGED <<log_logger, max_level>>
       ELSE /\ log_logger' = TRUE
            /\ max_level' = "Info"
            /\ trace' = trace \o <<"set_logger", "set_max_level">>
            /\ pc' = "alloc_init"
            /\ UNCHANGED <<ret, info, logged>>
    /\ UNCHANGED <<n_fired, layout, SYSTEM_TABLE, LOGGER, alloc, hook, events, op, st, i, dummy,
                   cfg, n_store, n_logger, n_alloc>>

\* uefi::alloc::init(boot_services)
init_alloc ==
    /\ pc = "alloc_init"
    /\ alloc' = Some(st[1].id)
    /\ n_alloc' = n_alloc + 1
    /\ trace' = Append(trace, "alloc::init")
    /\ pc' = "create_event"
    /\ UNCHANGED <<n_fired, layout, SYSTEM_TABLE, LOGGER, log_logger, max_level, hook, events,
                   op, ret, st, info, logged, i, dummy, cfg, n_store, n_logger>>

\* boot_services.create_event(SIGNAL_EXIT_BOOT_SERVICES, NOTIFY,
\* Some(exit_boot_services)).map_inner(|_| ()) and the return of init.
init_create_event ==
    /\ pc = "create_event"
    /\ trace' = Append(trace, "create_event")
    /\ IF st[1].create_event = "SUCCESS"
       THEN /\ hook' = "Registered"
            /\ events' = events + 1
       ELSE UNCHANGED <<hook, events>>
    /\ ret' = Some(st[1].create_event)
    /\ st' = None
    /\ pc' = "run"
    /\ UNCHANGED <<n_fired, layout, SYSTEM_TABLE, LOGGER, log_logger, max_level, alloc, op, info,
                   logged, i, dummy, cfg, n_store, n_logger, n_alloc>>

\* ---------------------------------------------------- exit_boot_services
\* The callback with the clearing of SYSTEM_TABLE left out of its first
\* step.
exit_boot_services_keeps_table ==
    /\ pc = "run"
    /\ hook = "Registered"
    /\ hook' = "Fired"
    /\ op' = "exit_boot_services"
    /\ ret' = None
    /\ trace' = << >>
    /\ pc' = "ebs_disable"
    /\ n_fired' = n_fired + 1
    /\ UNCHANGED <<layout, SYSTEM_TABLE, LOGGER, log_logger, max_level, alloc,
                   events, st, info, logged, i, dummy, cfg, n_store, n_logger,
                   n_alloc>>

\* The firmware signals the event; the callback starts with
\* SYSTEM_TABLE = None.
exit_boot_services ==
    /\ pc = "run"
    /\ hook = "Registered"
    /\ hook' = "Fired"
    /\ op' = "exit_boot_services"
    /\ ret' = None
    /\ trace' = << >>
    /\ SYSTEM_TABLE' = None
    /\ pc' = "ebs_disable"
    /\ n_fired' = n_fired + 1
    /\ UNCHANGED <<layout, LOGGER, log_logger, max_level, alloc, events, st, info,
                   logged, i, dummy, cfg, n_store, n_logger, n_alloc>>

\* A callback that insists on retiring an installed context: a further
\* signal panics.
exit_boot_services_again_expects_table ==
    /\ pc = "run"
    /\ hook = "Fired"
    /\ n_fired < MaxFirings
    /\ n_fired' = n_fired + 1
    /\ op' = "exit_boot_services"
    /\ EnterPanic(Some("lib.rs:118:9"),
                  Some(Message("The system table handle is not available", 0, 0)))
    /\ UNCHANGED <<layout, SYSTEM_TABLE, LOGGER, log_logger, max_level, alloc,
                   hook, events, st, i, dummy, cfg, n_store, n_logger, n_alloc>>

\* A firmware that signals the event group once more (a repeated
\* ExitBootServices call) enters the same callback with the hook already
\* fired.
exit_boot_services_again ==
    /\ pc = "run"
    /\ hook = "Fired"
    /\ n_fired < MaxFirings
    /\ n_fired' = n_fired + 1
    /\ op' = "exit_boot_services"
    /\ ret' = None
    /\ trace' = << >>
    /\ SYSTEM_TABLE' = None
    /\ pc' = "ebs_disable"
    /\ UNCHANGED <<layout, LOGGER, log_logger, max_level, alloc, hook, events,
                   st, info, logged, i, dummy, cfg, n_store, n_logger, n_alloc>>

\* The callback without the logger.disable() call.
exit_boot_services_keeps_logger ==
    /\ pc = "ebs_disable"
    /\ pc' = "ebs_alloc"
    /\ UNCHANGED <<n_fired, layout, SYSTEM_TABLE, LOGGER, trace, log_logger,
                   max_level, alloc, hook, events, op, ret, st, info, logged,
                   i, dummy, cfg, n_store, n_logger, n_alloc>>

\* if let Some(ref mut logger) = LOGGER { logger.disable(); }
exit_boot_services_disable ==
    /\ pc = "ebs_disable"
    /\ IF is_some(LOGGER)
       THEN /\ LOGGER' = Some(Logger_disable(LOGGER[1]))
            /\ trace' = Append(trace, "disable")
       ELSE UNCHANGED <<LOGGER, trace>>
    /\ pc' = "ebs_alloc"
    /\ UNCHANGED <<n_fired, layout, SYSTEM_TABLE, log_logger, max_level, alloc, hook, events, op,
                   ret, st, info, logged, i, dummy, cfg, n_store, n_logger,
                   n_alloc>>

\* uefi::alloc::exit_boot_services() and the return of the callback.
exit_boot_services_alloc ==
    /\ pc = "ebs_alloc"
    /\ alloc' = None
    /\ trace' = Append(trace, "alloc::exit_boot_services")
    /\ pc' = "run"
    /\ UNCHANGED <<n_fired, layout, SYSTEM_TABLE, LOGGER, log_logger, max_level, hook, events,
                   op, ret, st, info, logged, i, dummy, cfg, n_store, n_logger,
                   n_alloc>>

\* --------------------------------------------------------- panic_handler
\* A panic raised by application code during normal operation.
panic(loc, msg) ==
    /\ pc = "run"
    /\ op' = "panic_handler"
    /\ EnterPanic(loc, msg)
    /\ UNCHANGED <<n_fired, layout, SYSTEM_TABLE, LOGGER, log_logger, max_level, alloc, hook,
                   events, st, i, dummy, cfg, n_store, n_logger, n_alloc>>

\* if let Some(location) = info.location() { error!("Panic in ...") ... }
panic_location ==
    /\ pc = "ph_location"
    /\ IF is_some(info.location)
       THEN /\ logged' = Append(logged, LogRecord("location", info.location, None))
            /\ trace' = trace \o error_calls
            /\ pc' = "ph_message"
       ELSE /\ pc' = "ph_delay"
            /\ UNCHANGED <<logged, trace>>
    /\ UNCHANGED <<n_fired, layout, SYSTEM_TABLE, LOGGER, log_logger, max_level, alloc, hook,
                   events, op, ret, st, info, i, dummy, cfg, n_store, n_logger,
                   n_alloc>>

\* if let Some(message) = info.message() { error!("{}", message); }
panic_message ==
    /\ pc = "ph_message"
    /\ IF is_some(info.message)
       THEN /\ logged' = Append(logged, LogRecord("message", None, info.message))
            /\ trace' = trace \o error_calls
       ELSE UNCHANGED <<logged, trace>>
    /\ pc' = "ph_delay"
    /\ UNCHANGED <<n_fired, layout, SYSTEM_TABLE, LOGGER, log_logger, max_level, alloc, hook,
                   events, op, ret, st, info, i, dummy, cfg, n_store, n_logger,
                   n_alloc>>

\* The delay tier stalling through the boot services whatever
\* SYSTEM_TABLE holds.
panic_delay_always_stall ==
    /\ pc = "ph_delay"
    /\ trace' = Append(trace, "stall")
    /\ pc' = "ph_qemu"
    /\ UNCHANGED <<n_fired, layout, SYSTEM_TABLE, LOGGER, log_logger, max_level, alloc,
                   hook, events, op, ret, st, info, logged, i, dummy, cfg,
                   n_store, n_logger, n_alloc>>

\* Give the user some time to read the message: stall through the boot
\* services when the system table is available, else start the busy loop.
panic_delay ==
    /\ pc = "ph_delay"
    /\ IF is_some(SYSTEM_TABLE)
       THEN /\ trace' = Append(trace, "stall")
            /\ pc' = "ph_qemu"
            /\ UNCHANGED <<i, dummy>>
       ELSE /\ trace' = Append(trace, "busy_loop")
            /\ i' = 0
            /\ dummy' = 0
            /\ pc' = "ph_busy"
    /\ UNCHANGED <<n_fired, layout, SYSTEM_TABLE, LOGGER, log_logger, max_level, alloc, hook,
                   events, op, ret, st, info, logged, cfg, n_store, n_logger,
                   n_alloc>>

\* for i in 0..300_000_000 { write_volatile(&mut dummy, i) }
panic_busy ==
    /\ pc = "ph_busy"
    /\ IF i < BusyLoopIters
       THEN /\ dummy' = i
            /\ i' = i + 1
            /\ pc' = "ph_busy"
       ELSE /\ pc' = "ph_qemu"
            /\ UNCHANGED <<i, dummy>>
    /\ UNCHANGED <<n_fired, layout, SYSTEM_TABLE, LOGGER, log_logger, max_level, alloc, hook,
                   events, op, ret, st, info, trace, logged, cfg, n_store,
                   n_logger, n_alloc>>

\* The QEMU exit path exists iff feature "qemu" is set and the target is
\* x86_64; exit_failure() does not return.
qemu_exit_compiled == cfg.qemu /\ cfg.arch = "x86_64"

\* The QEMU exit taken whenever feature "qemu" is set, whatever the target.
panic_qemu_any_arch ==
    /\ pc = "ph_qemu"
    /\ IF cfg.qemu
       THEN /\ trace' = Append(trace, "exit_failure")
            /\ pc' = "qemu_exited"
       ELSE /\ pc' = "ph_reset"
            /\ UNCHANGED trace
    /\ UNCHANGED <<n_fired, layout, SYSTEM_TABLE, LOGGER, log_logger, max_level,
                   alloc, hook, events, op, ret, st, info, logged, i, dummy,
                   cfg, n_store, n_logger, n_alloc>>

panic_qemu ==
    /\ pc = "ph_qemu"
    /\ IF qemu_exit_compiled
       THEN /\ trace' = Append(trace, "exit_failure")
            /\ pc' = "qemu_exited"
       ELSE /\ pc' = "ph_reset"
            /\ UNCHANGED trace
    /\ UNCHANGED <<n_fired, layout, SYSTEM_TABLE, LOGGER, log_logger, max_level, alloc, hook,
                   events, op, ret, st, info, logged, i, dummy, cfg, n_store,
                   n_logger, n_alloc>>

\* The reset tier calling reset without looking at SYSTEM_TABLE.
panic_reset_unconditional ==
    /\ pc = "ph_reset"
    /\ trace' = Append(trace, "reset")
    /\ pc' \in {"reset_off", "ph_final"}
    /\ UNCHANGED <<n_fired, layout, SYSTEM_TABLE, LOGGER, log_logger, max_level,
                   alloc, hook, events, op, ret, st, info, logged, i, dummy,
                   cfg, n_store, n_logger, n_alloc>>

\* If the system table is available, runtime_services().reset(Shutdown,
\* ABORTED, None); the firmware may or may not give control back.
panic_reset ==
    /\ pc = "ph_reset"
    /\ IF is_some(SYSTEM_TABLE)
       THEN /\ trace' = Append(trace, "reset")
            /\ pc' \in {"reset_off", "ph_final"}
       ELSE /\ pc' = "ph_final"
            /\ UNCHANGED trace
    /\ UNCHANGED <<n_fired, layout, SYSTEM_TABLE, LOGGER, log_logger, max_level, alloc, hook,
                   events, op, ret, st, info, logged, i, dummy, cfg, n_store,
                   n_logger, n_alloc>>

\* The final tier without its loop: the handler returns after the log.
panic_final_returns ==
    /\ pc = "ph_final"
    /\ logged' = Append(logged, LogRecord("final", None,
                        Some(Message("Could not shut down", 0, 0))))
    /\ trace' = trace \o error_calls
    /\ pc' = "run"
    /\ UNCHANGED <<n_fired, layout, SYSTEM_TABLE, LOGGER, log_logger, max_level, alloc,
                   hook, events, op, ret, st, info, i, dummy, cfg, n_store,
                   n_logger, n_alloc>>

\* error!("Could not shut down, please power off the system manually...")
panic_final ==
    /\ pc = "ph_final"
    /\ logged' = Append(logged, LogRecord("final", None,
                        Some(Message("Could not shut down", 0, 0))))
    /\ trace' = trace \o error_calls
    /\ pc' = "ph_halt"
    /\ UNCHANGED <<n_fired, layout, SYSTEM_TABLE, LOGGER, log_logger, max_level, alloc, hook,
                   events, op, ret, st, info, i, dummy, cfg, n_store, n_logger,
                   n_alloc>>

\* loop { hlt } (or the empty loop on other targets)
panic_halt ==
    /\ pc = "ph_halt"
    /\ pc' = "ph_halt"
    /\ UNCHANGED <<n_fired, layout, SYSTEM_TABLE, LOGGER, log_logger, max_level, alloc, hook,
                   events, op, ret, st, info, trace, logged, i, dummy, cfg,
                   n_store, n_logger, n_alloc>>

\* --------------------------------------------------------- out_of_memory
\* out_of_memory formatting the layout with size and alignment exchanged.
out_of_memory_swapped(l) ==
    /\ pc = "run"
    /\ op' = "out_of_memory"
    /\ EnterPanic(Some("lib.rs:207:5"),
                  Some(Message("Ran out of free memory while trying to allocate",
                               l.align, l.size)))
    /\ layout' = Some(l)
    /\ UNCHANGED <<n_fired, SYSTEM_TABLE, LOGGER, log_logger, max_level, alloc, hook,
                   events, st, i, dummy, cfg, n_store, n_logger, n_alloc>>

\* panic!("Ran out of free memory while trying to allocate {:#?}", layout)
out_of_memory(l) ==
    /\ pc = "run"
    /\ op' = "out_of_memory"
    /\ EnterPanic(Some("lib.rs:207:5"),
                  Some(Message("Ran out of free memory while trying to allocate",
                               l.size, l.align)))
    /\ layout' = Some(l)
    /\ UNCHANGED <<n_fired, SYSTEM_TABLE, LOGGER, log_logger, max_level, alloc, hook,
                   events, st, i, dummy, cfg, n_store, n_logger, n_alloc>>

\* ------------------------------------------------------------------ Next
PanicStep ==
    \/ panic_location
    \/ panic_message
    \/ panic_delay
    \/ panic_busy
    \/ panic_qemu
    \/ panic_reset
    \/ panic_final
    \/ panic_halt

Next ==
    \/ system_table
    \/ \E table \in Tables : init(table)
    \/ init_logger_new
    \/ init_logger_set
    \/ init_alloc
    \/ init_create_event
    \/ exit_boot_services
    \/ exit_boot_services_disable
    \/ exit_boot_services_alloc
    \/ \E loc \in Locations, msg \in Messages : panic(loc, msg)
    \/ \E l \in Layouts : out_of_memory(l)
    \/ PanicStep

Spec == Init /\ [][Next]_vars

\* Once entered, the handler keeps running: nothing else is scheduled.
FairSpec == Spec /\ WF_vars(PanicStep)

\* The program under a firmware that may signal the event more than once.
RefireNext ==
    \/ Next
    \/ exit_boot_services_again

RefireSpec == Init /\ [][RefireNext]_vars

\* ------------------------------------------------------------ properties
installed == is_some(SYSTEM_TABLE)
logger_enabled == is_some(LOGGER) /\ is_some(LOGGER[1].writer)
Range(seq) == {seq[k] : k \in 1..Len(seq)}

\* The calls of a trace that are not log calls: the handler's tiers.
Tiers(tr) == SelectSeq(tr, LAMBDA c : c \notin {"error!", "output_string"})

\* C1: when init has returned a failure status X (the status create_event
\* failed with), SYSTEM_TABLE is None, so that a later init performs a full
\* installation.
C1_FailedInitLeavesUninstalled ==
    (pc = "run" /\ op = "init" /\ is_some(ret) /\ ret[1] /= "SUCCESS")
        => SYSTEM_TABLE = None

\* C2: an init call made right after an init that returned SUCCESS with the
\* event registered returns SUCCESS and stores no handle, constructs no
\* logger, initialises no heap and creates no event: one of each exists.
C2_SecondInitIsNoOp ==
    [][(pc = "run" /\ op = "init" /\ ret = Some("SUCCESS") /\ hook = "Registered"
        /\ op' = "init")
       => /\ ret' = Some("SUCCESS")
          /\ pc' = "run"
          /\ trace' = << >>
          /\ UNCHANGED <<SYSTEM_TABLE, LOGGER, log_logger, max_level, alloc,
                         hook, events, n_store, n_logger, n_alloc>>
          /\ n_store' = 1 /\ n_logger' = 1 /\ n_alloc' = 1 /\ events' = 1]_vars

\* C2 witness: a second init has returned SUCCESS through the guard (it made
\* no call) while the event of the first one is registered.
C2_Witness ==
    /\ pc = "run" /\ op = "init" /\ ret = Some("SUCCESS") /\ trace = << >>
    /\ hook = "Registered" /\ installed /\ events = 1

\* C3: once the callback has retired the context (SYSTEM_TABLE went from
\* Some to None, which happens when the hook fires), SYSTEM_TABLE is never
\* Some again.
C3_RetiredNeverInstalledAgain ==
    hook = "Fired" => SYSTEM_TABLE = None

\* C4: system_table() returns the stored handle exactly when SYSTEM_TABLE is
\* Some, which is the case for every call between a registered install and
\* the firing of the callback; it panics, returning nothing, when called
\* before any install or after the callback has fired.
C4_AccessorSafety ==
    [][(pc = "run" /\ op' = "system_table")
       => /\ installed => (ret' = SYSTEM_TABLE /\ pc' = "run")
          /\ ~installed => (ret' = None /\ pc' = "ph_location")
          /\ hook = "Registered" => (is_some(ret') /\ pc' = "run")
          /\ (hook = "Fired" \/ n_store = 0)
                => (ret' = None /\ pc' = "ph_location")]_vars

\* C4 witness: the accessor has returned the stored handle between a
\* successful install and the firing of the callback.
C4_Witness ==
    /\ pc = "run" /\ op = "system_table" /\ hook = "Registered"
    /\ is_some(ret) /\ ret = SYSTEM_TABLE

\* C5: once the callback has disabled the logger, no step enables it again.
C5_LoggerStaysDisabled ==
    [][(hook = "Fired" /\ is_some(LOGGER) /\ ~logger_enabled)
       => ~(is_some(LOGGER') /\ is_some(LOGGER'[1].writer))]_vars

C7_NeverReturns ==
    /\ [][(pc \in PanicPcs => pc' \in PanicPcs)
          /\ (pc \in TerminalPcs => pc' = pc)]_vars
    /\ (pc \in PanicPcs) ~> (pc \in TerminalPcs)

\* C7 witness: the handler entered through out_of_memory sits in its halt
\* loop after a reset that returned.
C7_Witness ==
    pc = "ph_halt" /\ op = "out_of_memory" /\ "reset" \in Range(trace)

\* C8 as stated: out_of_memory entered after the callback retired the
\* context always ends in the halt loop, with the busy loop as its only
\* tier.
C8_RetiredOomEndsInHalt ==
    (op = "out_of_memory" /\ hook = "Fired" /\ ~installed /\ pc \in TerminalPcs)
        => (pc = "ph_halt" /\ Tiers(trace) = <<"busy_loop">>)

\* C8 amended: out_of_memory never returns and panics with a message built
\* from the layout's size and alignment; with SYSTEM_TABLE None the handler
\* logs location and message, calls neither stall nor reset, runs the busy
\* loop and then ends in the halt loop when no QEMU exit path is compiled
\* in, and in the QEMU exit when one is.
C8_OomForwardsToPanic ==
    op = "out_of_memory" =>
      /\ pc \in PanicPcs
      /\ is_some(layout) /\ is_some(info.location)
      /\ info.message =
            Some(Message("Ran out of free memory while trying to allocate",
                         layout[1].size, layout[1].align))
      /\ ~installed =>
           /\ "stall" \notin Range(trace)
           /\ "reset" \notin Range(trace)
           /\ pc \in TerminalPcs =>
                /\ logged[1] = LogRecord("location", info.location, None)
                /\ logged[2] = LogRecord("message", None, info.message)
                /\ IF qemu_exit_compiled
                   THEN pc = "qemu_exited"
                        /\ Tiers(trace) = <<"busy_loop", "exit_failure">>
                   ELSE pc = "ph_halt"
                        /\ Tiers(trace) = <<"busy_loop">>
                        /\ Len(logged) = 3 /\ logged[3].kind = "final"

\* C8 witness: out_of_memory(size 4096, align 8) entered after the callback
\* fired has reached the halt loop.
C8_Witness ==
    /\ op = "out_of_memory" /\ hook = "Fired" /\ ~installed /\ pc = "ph_halt"
    /\ layout = Some([size |-> 4096, align |-> 8])

\* C9: no call made after the callback has fired is a call of a boot-phase
\* service (every entry point starts with an empty trace, the callback
\* included).
C9_NoBootPhaseCallAfterExit ==
    hook = "Fired" => \A k \in 1..Len(trace) : trace[k] \notin BootPhaseCalls

\* C10: the callback clears SYSTEM_TABLE, then disables the logger, then
\* calls the allocator's exit: SYSTEM_TABLE is None when the logger is
\* disabled and when the allocator's exit is called.
C10_CallbackOrder ==
    /\ [][(Len(trace') > Len(trace)
           /\ trace'[Len(trace')] \in {"disable", "alloc::exit_boot_services"})
          => /\ SYSTEM_TABLE = None
             /\ hook = "Fired"
             /\ trace' \in {<<"disable">>,
                            <<"disable", "alloc::exit_boot_services">>}]_vars
    /\ [](pc = "ebs_alloc" => ~logger_enabled)
    /\ []((op = "exit_boot_services" /\ pc = "run")
            => /\ trace = <<"disable", "alloc::exit_boot_services">>
               /\ SYSTEM_TABLE = None /\ ~logger_enabled /\ alloc = None)

\* C10 witness: the callback has run to completion.
C10_Witness ==
    /\ op = "exit_boot_services" /\ pc = "run" /\ hook = "Fired"
    /\ trace = <<"disable", "alloc::exit_boot_services">>

\* C11: whenever control is back in normal operation with SYSTEM_TABLE Some
\* (init has returned, with success or failure), the exit-boot-services
\* event is registered.
C11_InstalledImpliesRegistered ==
    (pc = "run" /\ installed) => hook = "Registered"

\* C12: at most one event is ever created, whatever init calls are made
\* (after a failed registration, after the callback fired); the callback is
\* entered at most once, a fired hook stays fired, and the callback is not
\* entered while panic_handler runs.
C12_OneRegistrationOneFiring ==
    /\ [](events <= 1 /\ n_fired <= events)
    /\ [][(hook = "Fired" => hook' = "Fired")
          /\ (pc \in PanicPcs => (hook' = hook /\ n_fired' = n_fired))]_vars

\* C12 witness: an init made after the callback fired has ended in
\* panic_handler, and still one event was created and fired once.
C12_Witness ==
    /\ op = "init" /\ pc \in TerminalPcs /\ hook = "Fired"
    /\ events = 1 /\ n_fired = 1 /\ n_store = 2

\* C13: a further entry of the callback after it has already run changes
\* nothing: SYSTEM_TABLE stays None, the logger stays disabled, the
\* allocator stays exited, and the callback runs to its end without
\* entering panic_handler.
C13_SecondFiringIsNoOp ==
    (n_fired >= 2 /\ op = "exit_boot_services")
        => /\ SYSTEM_TABLE = None
           /\ is_some(LOGGER) /\ ~logger_enabled
           /\ alloc = None
           /\ hook = "Fired"
           /\ pc \in {"ebs_disable", "ebs_alloc", "run"}

\* C13 witness: the callback has returned from its second run.
C13_Witness ==
    n_fired = 2 /\ op = "exit_boot_services" /\ pc = "run"

\* C14: in normal operation an enabled logger implies SYSTEM_TABLE is Some,
\* and once the callback has run SYSTEM_TABLE is None and the logger is
\* disabled.
C14_LoggerEnabledImpliesInstalled ==
    pc = "run" => /\ logger_enabled => installed
                  /\ hook = "Fired" => (~installed /\ ~logger_enabled)

\* C14 witness: normal operation after the callback has completed, the
\* logger object still there and disabled.
C14_Witness ==
    /\ pc = "run" /\ hook = "Fired" /\ op = "exit_boot_services"
    /\ is_some(LOGGER) /\ ~logger_enabled /\ ~installed

\* C15: SYSTEM_TABLE and LOGGER (the context, the stored handle, the
\* logger's writer) change only in steps of init and of the callback:
\* system_table, panic_handler and out_of_memory leave them as they are.
C15_OnlyInitAndCallbackMutate ==
    [][/\ (SYSTEM_TABLE' /= SYSTEM_TABLE \/ LOGGER' /= LOGGER)
            => (op' \in {"init", "exit_boot_services"}
                /\ pc \notin PanicPcs /\ pc' \notin PanicPcs)
       /\ (op' \in {"system_table", "panic_handler", "out_of_memory"}
           \/ pc \in PanicPcs \/ pc' \in PanicPcs)
            => UNCHANGED <<SYSTEM_TABLE, LOGGER>>]_vars

\* C15 witness: panic_handler, entered through out_of_memory, has run to
\* its end with the table and the enabled logger still in place.
C15_Witness ==
    /\ op = "out_of_memory" /\ pc \in TerminalPcs
    /\ installed /\ logger_enabled

\* C16: once the callback has fired, uefi::alloc::init is not called again
\* and no event is created: an init made after it panics at
\* set_logger().unwrap() and never reaches the allocator or create_event.
C16_NoHeapInitAfterExit ==
    hook = "Fired"
        => /\ n_alloc = 1
           /\ pc \notin {"alloc_init", "create_event"}
           /\ "alloc::init" \notin Range(trace)
           /\ "create_event" \notin Range(trace)
           /\ op = "init"
                => /\ pc \in {"init_logger", "set_logger"} \cup PanicPcs
                   /\ pc \in PanicPcs
                        => /\ info.location = Some("lib.rs:103:5")
                           /\ alloc = None

\* C16 witness: an init made after the callback fired is in panic_handler
\* with the allocator still exited.
C16_Witness ==
    /\ op = "init" /\ hook = "Fired" /\ pc \in PanicPcs
    /\ n_alloc = 1 /\ alloc = None /\ n_logger = 2

\* C17: the final tier is reached exactly when the QEMU exit is not
\* compiled in and either SYSTEM_TABLE is None at the reset check or reset
\* was called and returned; the handler then logs the final message and
\* enters the halt loop, where nothing changes any more: no stall, no
\* reset, no state change.
C17_AbsoluteFallback ==
    /\ [](pc \in {"ph_final", "ph_halt"}
            => /\ ~qemu_exit_compiled
               /\ installed <=> "reset" \in Range(trace))
    /\ [](pc = "ph_halt"
            => /\ Len(logged) >= 1
               /\ logged[Len(logged)] =
                    LogRecord("final", None, Some(Message("Could not shut down", 0, 0)))
               /\ Tiers(trace) \in {<<"busy_loop">>, <<"stall", "reset">>})
    /\ [][/\ (pc = "ph_reset" /\ ~installed) => pc' = "ph_final"
          /\ (pc = "ph_reset" /\ installed) => pc' \in {"reset_off", "ph_final"}
          /\ pc = "ph_final" => pc' = "ph_halt"
          /\ pc = "ph_halt" => UNCHANGED vars]_vars
    /\ (pc = "ph_final") ~> (pc = "ph_halt")

\* C17 witness: a panic raised with SYSTEM_TABLE None after the callback
\* fired sits in the halt loop after the final log.
C17_Witness ==
    /\ pc = "ph_halt" /\ op = "panic_handler" /\ ~installed /\ hook = "Fired"
    /\ logged[Len(logged)].kind = "final"

\* C18: once panic_handler is past its logging, every part of the
\* PanicInfo that was present, location or message, has been handed to
\* error!().
C18_LogsWhatIsAvailable ==
    (pc \in PanicPcs \ {"ph_location", "ph_message"})
        => /\ is_some(info.location)
                => LogRecord("location", info.location, None) \in Range(logged)
           /\ is_some(info.message)
                => LogRecord("message", None, info.message) \in Range(logged)

\* C19: with feature qemu on x86_64 the handler leaves through
\* exit_failure right after the delay tier and never reaches the reset
\* call, the final log or the halt loop; in every other build exit_failure
\* is never called and the handler goes on from the delay tier to the
\* reset tier with nothing in between.
C19_QemuExitPath ==
    /\ [](qemu_exit_compiled
            => /\ pc \notin {"ph_reset", "ph_final", "ph_halt", "reset_off"}
               /\ "reset" \notin Range(trace)
               /\ pc = "qemu_exited"
                    => Tiers(trace) \in {<<"stall", "exit_failure">>,
                                         <<"busy_loop", "exit_failure">>})
    /\ [](~qemu_exit_compiled
            => (pc /= "qemu_exited" /\ "exit_failure" \notin Range(trace)))
    /\ [][/\ (pc = "ph_qemu" /\ ~qemu_exit_compiled)
                => (pc' = "ph_reset" /\ trace' = trace)
          /\ (pc = "ph_qemu" /\ qemu_exit_compiled) => pc' = "qemu_exited"
          /\ pc = "qemu_exited" => UNCHANGED vars]_vars

\* C19 witness: a qemu build for x86_64 has left through exit_failure after
\* the stall.
C19_Witness ==
    /\ pc = "qemu_exited" /\ cfg.qemu /\ cfg.arch = "x86_64"
    /\ Tiers(trace) = <<"stall", "exit_failure">>

====
